---- MODULE Spec2Model ----
(***************************************************************************)
(* Weather MCP Server (src/main.py): the in-memory OAuth client registry,  *)
(* the authorization-code store and the handlers that read and write them. *)
(*                                                                         *)
(* Every handler is an asyncio coroutine: it runs without interruption     *)
(* between two awaits.  oauth_authorize and list_clients hold no await and *)
(* are one step each; oauth_token awaits request.form() and                *)
(* register_client awaits request.json() before their bodies run, so each  *)
(* of them is two steps: the request is received, then the body runs.      *)
(*                                                                         *)
(* secrets.token_urlsafe draws 128 or 256 random bits; the n-th draw is    *)
(* modelled as the n-th element of a pool of pairwise distinct strings     *)
(* (two draws never collide, and never hit a configured identifier).       *)
(***************************************************************************)
EXTENDS Integers, Sequences, FiniteSets, TLC

\* ---------------------------------------------------------------- bounds
MaxClients == 1     \* dynamic registrations in one behaviour
MaxCodes   == 2     \* authorization codes issued in one behaviour
MaxTicks   == 1     \* clock advances in one behaviour
MaxReqs    == 2     \* requests that can be suspended at an await at once
MaxStreams == 2     \* /sse event generators created in one behaviour
MaxBeats   == 2     \* heartbeats one event generator yields

\* ------------------------------------------------------ program constants
CODE_TTL   == 600   \* expires_at = time.time() + 600
EXPIRES_IN == 3600  \* "expires_in": 3600
HEARTBEAT  == 30    \* await asyncio.sleep(30)

\* Python None, and a query/form parameter that was not sent.
None == "None"

QS_CALLBACK == "https://us-east-1.quicksight.aws.amazon.com/sn/oauthcallback"
APP_CALLBACK == "https://app.example/callback"
DEFAULT_SCOPE == "weather:read"
DEFAULT_NAME == "AWS QuickSight Integration"

\* The two start-up configurations of the module-level OAUTH_CLIENTS.
AWS_CLIENT_ID == "aws_static_client"
AWS_CLIENT_SECRET == "aws_static_secret"

\* Successive results of secrets.token_urlsafe, by use.
ClientIdPool == <<"aws_r1", "aws_r2", "aws_r3">>
SecretPool   == <<"secret_r1", "secret_r2", "secret_r3">>
CodePool     == <<"code_r1", "code_r2", "code_r3", "code_r4">>
TokenPool    == <<"mcp_at_r1", "mcp_at_r2", "mcp_at_r3", "mcp_at_r4", "mcp_at_r5">>

VARIABLES
    OAUTH_CLIENTS,        \* dict client_id -> client record, in insertion order
    authorization_codes,  \* dict code -> code record, in insertion order
    now,                  \* time.time()
    suspended,            \* per handler with an await before its body: the number
                          \*   of its requests suspended at that await
    request,              \* the query, form or body of the request the last step
                          \*   answered, NoRequest when it answered none
    response,             \* the response the last step returned, NoResponse when
                          \*   it returned none
    issued,               \* history: per code oauth_authorize issued, the query and
                          \*   the record stored for it
    tokens,               \* history: one entry per access token returned
    OPENWEATHER_API_KEY,  \* os.getenv("OPENWEATHER_API_KEY", "")
    tool_call,            \* the tool call being served: where it
                          \*   is suspended, what it has fetched, and the remote
                          \*   calls it has made
    streams               \* per /sse event generator: where it is suspended,
                          \*   when its sleep ends, and the events it has yielded

vars == <<OAUTH_CLIENTS, authorization_codes, now, suspended, request, response,
          issued, tokens, OPENWEATHER_API_KEY, tool_call, streams>>

\* The state of the OAuth handlers, and the state of the tools and the stream.
oauth == <<OAUTH_CLIENTS, authorization_codes, suspended, issued, tokens>>

service == <<OPENWEATHER_API_KEY, tool_call, streams>>

Suspended == suspended.token + suspended.register

\* ------------------------------------------------------------ Python dict
\* A dict is a sequence of [k, v] entries in insertion order.
DictKeys(d) == {d[i].k : i \in DOMAIN d}

DictHas(d, key) == key \in DictKeys(d)

DictGet(d, key) == d[CHOOSE i \in DOMAIN d : d[i].k = key].v

\* Mutant: the new entry takes the place of the oldest one.
DictSetFirst(d, key, value) ==
    IF d = <<>> THEN <<[k |-> key, v |-> value]>>
    ELSE [d EXCEPT ![1] = [k |-> key, v |-> value]]

\* Mutant: the name is rebound to a dict holding the new entry alone.
DictSetAlone(d, key, value) == <<[k |-> key, v |-> value]>>

\* d[key] = value: replaces the value of an existing key in place.
DictSet(d, key, value) ==
    IF DictHas(d, key)
    THEN [i \in DOMAIN d |-> IF d[i].k = key THEN [k |-> key, v |-> value] ELSE d[i]]
    ELSE Append(d, [k |-> key, v |-> value])

DictDel(d, key) == SelectSeq(d, LAMBDA e : e.k # key)

SeqToSet(s) == {s[i] : i \in DOMAIN s}

\* Python truthiness of an optional string.
Truthy(x) == x # None /\ x # ""

\* --------------------------------------------------------------- start-up
StaticClients ==
    <<[k |-> AWS_CLIENT_ID,
       v |-> [client_secret |-> AWS_CLIENT_SECRET,
              name |-> "AWS QuickSight Weather Integration",
              redirect_uris |-> <<QS_CALLBACK>>,
              created_at |-> 0,
              scopes |-> <<"openid", "mcp:stream", "weather:read">>,
              active |-> TRUE]]>>

FallbackClients ==
    <<[k |-> "aws_config_missing",
       v |-> [client_secret |-> "env_vars_not_set",
              name |-> "CONFIGURATION REQUIRED",
              redirect_uris |-> <<>>,
              scopes |-> <<>>,
              active |-> FALSE]]>>

\* A response: the handler, the HTTP status, the detail of an HTTPException, the
\* authorization code the request presented or was issued, the line the handler
\* printed, and the JSON body or redirect of a success.
NoResponse ==
    [op |-> "none", status |-> 0, detail |-> "", code |-> None, log |-> None,
     body |-> <<>>]

NoRequest == <<>>

\* No /api/tools/call request is being served.
NoCall ==
    [pc |-> "idle", name |-> None, arguments |-> <<>>, fetch |-> 0,
     weather |-> <<>>, remote |-> <<>>, answered |-> <<>>]

\* An event generator that was not created.
NoStream == [pc |-> "none", wake |-> 0, events |-> <<>>, ended_at |-> -1]

Init ==
    /\ OAUTH_CLIENTS \in {StaticClients, FallbackClients}
    /\ authorization_codes = <<>>
    /\ now = 0
    /\ suspended = [token |-> 0, register |-> 0, health |-> 0]
    /\ request = NoRequest
    /\ response = NoResponse
    /\ issued = <<>>
    /\ tokens = <<>>
    /\ OPENWEATHER_API_KEY \in {"", "owm_key"}
    /\ tool_call = NoCall
    /\ streams = [i \in 1..MaxStreams |-> NoStream]

\* The deployment with the OpenWeatherMap key set; the key plays no part in the
\* OAuth handlers.
InitKeyed == Init /\ OPENWEATHER_API_KEY = "owm_key"

\* ------------------------------------------------------------------ clock
\* The clock advances to the last moment a code issued now is valid, or just past it.
TickSteps == {CODE_TTL, CODE_TTL + 1}

TicksUsed == now \div CODE_TTL

Tick(d) ==
    /\ TicksUsed < MaxTicks
    /\ now' = now + d
    /\ request' = NoRequest
    /\ response' = NoResponse
    /\ UNCHANGED <<OAUTH_CLIENTS, authorization_codes, suspended, issued, tokens>>
    /\ UNCHANGED service

HTTPException(op, status_code, detail, code) ==
    [op |-> op, status |-> status_code, detail |-> detail, code |-> code,
     log |-> None, body |-> <<>>]

\* A FastAPI query parameter with a default: the default when it was not sent.
QueryDefault(sent, default) == IF sent = None THEN default ELSE sent

\* ------------------------------------------------------- GET /oauth/authorize
\* scope.split(): the scope names of the scope strings the model sends.
ScopeNames(scope) ==
    CASE scope = "weather:read" -> {"weather:read"}
      [] scope = "openid mcp:stream" -> {"openid", "mcp:stream"}
      [] scope = "weather:read admin" -> {"weather:read", "admin"}
      [] OTHER -> {}

ALLOWED_SCOPES == {"openid", "mcp:stream", "weather:read"}

\* The line the scope check prints: it rejects nothing.
ScopeLog(scope) ==
    IF Truthy(scope) /\ ~(ScopeNames(scope) \subseteq ALLOWED_SCOPES)
    THEN "INFO: AWS requested scopes" ELSE None

\* Mutant: a code is expired from its expires_at on.
ExpiredAtDeadline(t, code_data) == t >= code_data.expires_at

\* time.time() > data["expires_at"]
Expired(t, code_data) == t > code_data.expires_at

\* Mutant: expired codes are left in the store.
SweepNone(codes, t) == codes

\* expired_codes = [...]; for code in expired_codes: del authorization_codes[code]
Sweep(codes, t) == SelectSeq(codes, LAMBDA e : ~Expired(t, e.v))

\* Mutant: the scope of the query is not stored.
CodeRecordDefaultScope(q, scope, t) ==
    [client_id |-> q.client_id,
     redirect_uri |-> q.redirect_uri,
     state |-> q.state,
     scope |-> DEFAULT_SCOPE,
     code_challenge |-> q.code_challenge,
     code_challenge_method |-> q.code_challenge_method,
     expires_at |-> t + CODE_TTL,
     created_at |-> t]

CodeRecord(q, scope, t) ==
    [client_id |-> q.client_id,
     redirect_uri |-> q.redirect_uri,
     state |-> q.state,
     scope |-> IF Truthy(scope) THEN scope ELSE DEFAULT_SCOPE,
     code_challenge |-> q.code_challenge,
     code_challenge_method |-> q.code_challenge_method,
     expires_at |-> t + CODE_TTL,
     created_at |-> t]

\* Mutant: the response type is validated first.
AuthorizeErrorTypeFirst(clients, response_type, client_id, redirect_uri) ==
    IF response_type # "code"
    THEN "Unsupported response type. Only 'code' is supported."
    ELSE IF ~Truthy(client_id) \/ ~Truthy(redirect_uri)
    THEN "Missing required parameters: client_id and redirect_uri"
    ELSE IF ~DictHas(clients, client_id)
    THEN "Invalid client ID"
    ELSE IF redirect_uri \notin SeqToSet(DictGet(clients, client_id).redirect_uris)
    THEN "Invalid redirect URI"
    ELSE ""

\* Mutant: the redirect_uri is not looked up in the client's list.
AuthorizeErrorAnyUri(clients, response_type, client_id, redirect_uri) ==
    IF ~Truthy(client_id) \/ ~Truthy(redirect_uri)
    THEN "Missing required parameters: client_id and redirect_uri"
    ELSE IF ~DictHas(clients, client_id)
    THEN "Invalid client ID"
    ELSE IF response_type # "code"
    THEN "Unsupported response type. Only 'code' is supported."
    ELSE ""

\* The detail of the HTTPException the parameter checks raise, "" when they pass.
AuthorizeError(clients, response_type, client_id, redirect_uri) ==
    IF ~Truthy(client_id) \/ ~Truthy(redirect_uri)
    THEN "Missing required parameters: client_id and redirect_uri"
    ELSE IF ~DictHas(clients, client_id)
    THEN "Invalid client ID"
    ELSE IF redirect_uri \notin SeqToSet(DictGet(clients, client_id).redirect_uris)
    THEN "Invalid redirect URI"
    ELSE IF response_type # "code"
    THEN "Unsupported response type. Only 'code' is supported."
    ELSE ""

\* The handler on the registry `clients`, the store `codes` and the clock `t`, for
\* the query q, with auth_code the next secrets.token_urlsafe(32): the store it
\* leaves and the response it returns.
AuthorizeHandler(clients, codes, t, auth_code, q) ==
    LET response_type == QueryDefault(q.response_type, "code")
        scope == QueryDefault(q.scope, DEFAULT_SCOPE)
        error == AuthorizeError(clients, response_type, q.client_id, q.redirect_uri)
    IN  IF error # ""
        THEN [codes |-> codes,
              response |-> HTTPException("authorize", 400, error, None)]
        ELSE [codes |-> Sweep(DictSet(codes, auth_code, CodeRecord(q, scope, t)), t),
              response |->
                  [op |-> "authorize", status |-> 307, detail |-> "",
                   code |-> auth_code, log |-> ScopeLog(scope),
                   body |-> [location |-> q.redirect_uri, code |-> auth_code,
                             state |-> IF Truthy(q.state) THEN q.state ELSE None]]]

NewAuthCode == CodePool[Len(issued) + 1]

oauth_authorize(q) ==
    LET out == AuthorizeHandler(OAUTH_CLIENTS, authorization_codes, now, NewAuthCode, q)
    IN  /\ out.response.status = 307 => Len(issued) < MaxCodes
        /\ authorization_codes' = out.codes
        /\ request' = q
        /\ response' = out.response
        /\ issued' = IF out.response.status = 307
                     THEN Append(issued, [code |-> NewAuthCode, query |-> q,
                                          stored |-> DictGet(out.codes, NewAuthCode)])
                     ELSE issued
        /\ UNCHANGED <<OAUTH_CLIENTS, now, suspended, tokens>>
        /\ UNCHANGED service

\* ---------------------------------------------------------- POST /oauth/token
\* Mutant: authorization_codes[code], the code is read and left in the store.
PopCodeKeeps(codes, code) == codes

\* authorization_codes.pop(code)
PopCode(codes, code) == DictDel(codes, code)

\* Mutant: the client_id stored with the code is not compared.
GrantErrorAnyClient(code_data, t, redirect_uri, client_id) ==
    IF t > code_data.expires_at
    THEN "Authorization code expired"
    ELSE IF code_data.redirect_uri # redirect_uri
    THEN "Redirect URI mismatch"
    ELSE ""

\* The detail of the HTTPException the checks on the popped code raise, "" when
\* they pass.
GrantError(code_data, t, redirect_uri, client_id) ==
    IF Expired(t, code_data)
    THEN "Authorization code expired"
    ELSE IF code_data.redirect_uri # redirect_uri
    THEN "Redirect URI mismatch"
    ELSE IF code_data.client_id # client_id
    THEN "Client ID mismatch"
    ELSE ""

\* Mutant: the code is read, checked, and removed only when a token is granted.
TokenHandlerChecksFirst(clients, codes, t, access_token, f) ==
    IF f.grant_type # "authorization_code"
    THEN [codes |-> codes,
          response |-> HTTPException("token", 400,
              "Unsupported grant type. Only 'authorization_code' is supported.", f.code)]
    ELSE IF ~DictHas(clients, f.client_id)
    THEN [codes |-> codes,
          response |-> HTTPException("token", 400, "Invalid client ID", f.code)]
    ELSE IF DictGet(clients, f.client_id).client_secret # f.client_secret
    THEN [codes |-> codes,
          response |-> HTTPException("token", 400, "Invalid client secret", f.code)]
    ELSE IF ~DictHas(codes, f.code)
    THEN [codes |-> codes,
          response |-> HTTPException("token", 400,
              "Invalid or expired authorization code", f.code)]
    ELSE LET code_data == DictGet(codes, f.code)
             error == GrantError(code_data, t, f.redirect_uri, f.client_id)
         IN  IF error # ""
             THEN [codes |-> codes,
                   response |-> HTTPException("token", 400, error, f.code)]
             ELSE [codes |-> PopCode(codes, f.code),
                   response |->
                       [op |-> "token", status |-> 200, detail |-> "",
                        code |-> f.code,
                        log |-> IF Truthy(code_data.code_challenge)
                                THEN "INFO: PKCE used" ELSE None,
                        body |-> [access_token |-> access_token,
                                  token_type |-> "bearer",
                                  expires_in |-> EXPIRES_IN,
                                  scope |-> code_data.scope,
                                  id_token |-> access_token]]]

\* Mutant: the code is popped before the grant type and the client are checked.
TokenHandlerPopsFirst(clients, codes, t, access_token, f) ==
    IF f.grant_type # "authorization_code"
    THEN [codes |-> PopCode(codes, f.code),
          response |-> HTTPException("token", 400,
              "Unsupported grant type. Only 'authorization_code' is supported.", f.code)]
    ELSE IF ~DictHas(clients, f.client_id)
    THEN [codes |-> PopCode(codes, f.code),
          response |-> HTTPException("token", 400, "Invalid client ID", f.code)]
    ELSE IF DictGet(clients, f.client_id).client_secret # f.client_secret
    THEN [codes |-> PopCode(codes, f.code),
          response |-> HTTPException("token", 400, "Invalid client secret", f.code)]
    ELSE IF ~DictHas(codes, f.code)
    THEN [codes |-> codes,
          response |-> HTTPException("token", 400,
              "Invalid or expired authorization code", f.code)]
    ELSE LET code_data == DictGet(codes, f.code)
             error == GrantError(code_data, t, f.redirect_uri, f.client_id)
         IN  IF error # ""
             THEN [codes |-> PopCode(codes, f.code),
                   response |-> HTTPException("token", 400, error, f.code)]
             ELSE [codes |-> PopCode(codes, f.code),
                   response |->
                       [op |-> "token", status |-> 200, detail |-> "",
                        code |-> f.code,
                        log |-> IF Truthy(code_data.code_challenge)
                                THEN "INFO: PKCE used" ELSE None,
                        body |-> [access_token |-> access_token,
                                  token_type |-> "bearer",
                                  expires_in |-> EXPIRES_IN,
                                  scope |-> code_data.scope,
                                  id_token |-> access_token]]]

\* The body of the handler after `await request.form()`, for the form f, with
\* access_token the next "mcp_at_" + secrets.token_urlsafe(32).
TokenHandler(clients, codes, t, access_token, f) ==
    IF f.grant_type # "authorization_code"
    THEN [codes |-> codes,
          response |-> HTTPException("token", 400,
              "Unsupported grant type. Only 'authorization_code' is supported.", f.code)]
    ELSE IF ~DictHas(clients, f.client_id)
    THEN [codes |-> codes,
          response |-> HTTPException("token", 400, "Invalid client ID", f.code)]
    ELSE IF DictGet(clients, f.client_id).client_secret # f.client_secret
    THEN [codes |-> codes,
          response |-> HTTPException("token", 400, "Invalid client secret", f.code)]
    ELSE IF ~DictHas(codes, f.code)
    THEN [codes |-> codes,
          response |-> HTTPException("token", 400,
              "Invalid or expired authorization code", f.code)]
    ELSE LET code_data == DictGet(codes, f.code)
             error == GrantError(code_data, t, f.redirect_uri, f.client_id)
         IN  IF error # ""
             THEN [codes |-> PopCode(codes, f.code),
                   response |-> HTTPException("token", 400, error, f.code)]
             ELSE [codes |-> PopCode(codes, f.code),
                   response |->
                       [op |-> "token", status |-> 200, detail |-> "",
                        code |-> f.code,
                        log |-> IF Truthy(code_data.code_challenge)
                                THEN "INFO: PKCE used" ELSE None,
                        body |-> [access_token |-> access_token,
                                  token_type |-> "bearer",
                                  expires_in |-> EXPIRES_IN,
                                  scope |-> code_data.scope,
                                  id_token |-> access_token]]]

NewAccessToken == TokenPool[Len(tokens) + 1]

\* The request is received; the handler is suspended in `await request.form()`.
token_request ==
    /\ Suspended < MaxReqs
    /\ suspended' = [suspended EXCEPT !.token = @ + 1]
    /\ request' = NoRequest
    /\ response' = NoResponse
    /\ UNCHANGED <<OAUTH_CLIENTS, authorization_codes, now, issued, tokens>>
    /\ UNCHANGED service

oauth_token(f) ==
    LET out == TokenHandler(OAUTH_CLIENTS, authorization_codes, now, NewAccessToken, f)
    IN  /\ suspended.token > 0
        /\ suspended' = [suspended EXCEPT !.token = @ - 1]
        /\ authorization_codes' = out.codes
        /\ request' = f
        /\ response' = out.response
        /\ tokens' = IF out.response.status = 200
                     THEN Append(tokens,
                                 [access_token |-> out.response.body.access_token,
                                  code |-> f.code,
                                  client_id |-> f.client_id,
                                  raced |-> suspended.token > 1])
                     ELSE tokens
        /\ UNCHANGED <<OAUTH_CLIENTS, now, issued>>
        /\ UNCHANGED service

\* ------------------------------------------------- POST /api/clients/register
\* data.get(key, default) on the parsed JSON object.
JsonGet(data, key, default) == IF key \in DOMAIN data THEN data[key] ELSE default

ClientRecord(client_secret, client_name, redirect_uris, t) ==
    [client_secret |-> client_secret,
     name |-> client_name,
     redirect_uris |-> redirect_uris,
     created_at |-> t,
     scopes |-> <<"weather:read">>,
     active |-> TRUE]

\* The body of the handler after `await request.json()`, for the request body b
\* (b.json_ok: the body parses to a JSON object), with client_id and client_secret
\* the next "aws_" + secrets.token_urlsafe(16) and secrets.token_urlsafe(32).
RegisterHandler(clients, t, client_id, client_secret, b) ==
    IF ~b.json_ok
    THEN [clients |-> clients,
          response |-> HTTPException("register", 400, "Expecting value", None)]
    ELSE LET client_name == JsonGet(b.data, "name", DEFAULT_NAME)
             redirect_uris == JsonGet(b.data, "redirect_uris", <<QS_CALLBACK>>)
         IN  [clients |-> DictSet(clients, client_id,
                                  ClientRecord(client_secret, client_name,
                                               redirect_uris, t)),
              response |->
                  [op |-> "register", status |-> 200, detail |-> "", code |-> None,
                   log |-> None,
                   body |-> [client_id |-> client_id,
                             client_secret |-> client_secret,
                             name |-> client_name,
                             redirect_uris |-> redirect_uris]]]

\* Dynamic registrations so far: the registry starts with one client and no
\* handler deletes from it.
Registered == Len(OAUTH_CLIENTS) - 1

\* Mutant: the identifier of the first client is drawn again.
StaleClientId == OAUTH_CLIENTS[1].k

NewClientId == ClientIdPool[Registered + 1]

NewClientSecret == SecretPool[Registered + 1]

\* The request is received; the handler is suspended in `await request.json()`.
register_request ==
    /\ Suspended < MaxReqs
    /\ suspended' = [suspended EXCEPT !.register = @ + 1]
    /\ request' = NoRequest
    /\ response' = NoResponse
    /\ UNCHANGED <<OAUTH_CLIENTS, authorization_codes, now, issued, tokens>>
    /\ UNCHANGED service

register_client(b) ==
    LET out == RegisterHandler(OAUTH_CLIENTS, now, NewClientId, NewClientSecret, b)
    IN  /\ suspended.register > 0
        /\ out.response.status = 200 => Registered < MaxClients
        /\ suspended' = [suspended EXCEPT !.register = @ - 1]
        /\ OAUTH_CLIENTS' = out.clients
        /\ request' = b
        /\ response' = out.response
        /\ UNCHANGED <<authorization_codes, now, issued, tokens>>
        /\ UNCHANGED service

\* -------------------------------------------------------------- GET /api/clients
\* Mutant: the listing copies the whole record.
ClientInfoLeaky(client_id, client_data) ==
    [client_id |-> client_id,
     client_secret |-> client_data.client_secret,
     name |-> client_data.name,
     redirect_uris |-> client_data.redirect_uris,
     created_at |-> client_data.created_at,
     active |-> client_data.active]

\* The entry of a client in the listing.
ClientInfo(client_id, client_data) ==
    [client_id |-> client_id,
     name |-> client_data.name,
     redirect_uris |-> client_data.redirect_uris,
     created_at |-> client_data.created_at,
     active |-> client_data.active]

\* client_data["created_at"] raises KeyError on a record without the key; the
\* handler catches nothing, so the server answers 500.
ListClients(clients) ==
    IF \E i \in DOMAIN clients : "created_at" \notin DOMAIN clients[i].v
    THEN HTTPException("list", 500, "Internal Server Error", None)
    ELSE [op |-> "list", status |-> 200, detail |-> "", code |-> None, log |-> None,
          body |-> [clients |-> [i \in DOMAIN clients |->
                                    ClientInfo(clients[i].k, clients[i].v)]]]

list_clients ==
    /\ request' = NoRequest
    /\ response' = ListClients(OAUTH_CLIENTS)
    /\ UNCHANGED <<OAUTH_CLIENTS, authorization_codes, now, suspended, issued, tokens>>
    /\ UNCHANGED service

\* ------------------------------------------------ WeatherService.get_weather
\* What the geocoding endpoint and the weather endpoint can answer: a network
\* fault (httpx.RequestError), a status other than 200, and 200 with an empty or
\* a one-place result, or with a weather report (temp in hundredths of a degree)
\* that has or lacks the "main" object.
GeoAnswers ==
    {[fault |-> TRUE, status_code |-> 0, data |-> <<>>],
     [fault |-> FALSE, status_code |-> 401, data |-> <<>>],
     [fault |-> FALSE, status_code |-> 200, data |-> <<>>],
     [fault |-> FALSE, status_code |-> 200, data |-> <<[lat |-> 48, lon |-> 2]>>]}

Temps == {1996, 2004, 2010}

WeatherAnswers ==
    {[fault |-> TRUE, status_code |-> 0, has_main |-> FALSE, temp |-> 0],
     [fault |-> FALSE, status_code |-> 401, has_main |-> FALSE, temp |-> 0],
     [fault |-> FALSE, status_code |-> 200, has_main |-> FALSE, temp |-> 0]}
    \cup {[fault |-> FALSE, status_code |-> 200, has_main |-> TRUE, temp |-> t] :
            t \in Temps}

\* round(temp, 1), in tenths of a degree, of a temperature in hundredths that is
\* not half-way between two tenths.
Round1(temp) == (temp + 5) \div 10

\* str(e) of an HTTPException e: "<status_code>: <detail>".
StrOfHTTPException(status_code, detail) ==
    CASE status_code = 404 /\ detail = "City not found" -> "404: City not found"
      [] status_code = 401 /\ detail = "Geocoding API error"
            -> "401: Geocoding API error"
      [] status_code = 401 /\ detail = "Weather API error"
            -> "401: Weather API error"
      [] OTHER -> "HTTPException"

\* The request ends with an HTTPException.
ToolError(call, status_code, detail) ==
    [call |-> [call EXCEPT !.pc = "idle"],
     response |-> HTTPException("tool", status_code, detail, None)]

\* raise HTTPException(status_code, detail) inside the try of get_weather:
\* HTTPException is an Exception and not an httpx.RequestError, so the clause
\* `except Exception as e` catches it and raises HTTPException(500, str(e)).
RaisedInTry(call, status_code, detail) ==
    ToolError(call, 500, StrOfHTTPException(status_code, detail))

\* Mutant: the key is not tested.
GetWeatherUnchecked(call, key, n) ==
    [call |-> [call EXCEPT !.pc = "geo", !.fetch = n,
                           !.remote = Append(@, [fetch |-> n, url |-> "geo"])],
     response |-> NoResponse]

\* get_weather up to its first await, as fetch n of the request: the key is
\* tested before the try, then the geocoding request is sent.
GetWeather(call, key, n) ==
    IF ~Truthy(key)
    THEN ToolError([call EXCEPT !.fetch = n], 500,
                   "OpenWeatherMap API key not configured")
    ELSE [call |-> [call EXCEPT !.pc = "geo", !.fetch = n,
                                !.remote = Append(@, [fetch |-> n, url |-> "geo"])],
          response |-> NoResponse]

\* The request has received the answer a to its remote call to url.
Heard(call, url, a, empty) ==
    [call EXCEPT !.answered = Append(@, [fetch |-> call.fetch, url |-> url,
                                         fault |-> a.fault,
                                         status_code |-> a.status_code,
                                         empty |-> empty])]

\* get_weather from the answer of the geocoding endpoint to its next await.
GeoResponse(call, g) ==
    LET heard == Heard(call, "geo", g, g.data = <<>>)
    IN  IF g.fault
        THEN ToolError(heard, 500, "Network error")
        ELSE IF g.status_code # 200
        THEN RaisedInTry(heard, g.status_code, "Geocoding API error")
        ELSE IF g.data = <<>>
        THEN RaisedInTry(heard, 404, "City not found")
        ELSE [call |-> [heard EXCEPT !.pc = "weather",
                                     !.remote = Append(@, [fetch |-> call.fetch,
                                                           url |-> "weather"])],
              response |-> NoResponse]

\* ------------------------------------------------------ POST /api/tools/call
ToolNames == {"get_weather", "get_weather_forecast", "compare_weather"}

ToolResult(call, body) ==
    [call |-> [call EXCEPT !.pc = "idle"],
     response |-> [op |-> "tool", status |-> 200, detail |-> "", code |-> None,
                   log |-> None, body |-> body]]

\* arguments.get(key): arguments is a JSON object (dict) or another JSON value.
ArgGet(arguments, key) == JsonGet(arguments.items, key, None)

EmptyArguments == [dict |-> TRUE, items |-> <<>>]

\* Mutant: ties go to the first city.
WarmerOrEqual(city1, city2, temperature1, temperature2) ==
    IF temperature1 >= temperature2 THEN city1 ELSE city2

\* city1 if weather1["temperature"] > weather2["temperature"] else city2
Warmer(city1, city2, temperature1, temperature2) ==
    IF temperature1 > temperature2 THEN city1 ELSE city2

\* abs(weather1["temperature"] - weather2["temperature"])
TempDiff(temperature1, temperature2) ==
    IF temperature1 >= temperature2
    THEN temperature1 - temperature2
    ELSE temperature2 - temperature1

\* Mutant: every name is dispatched like get_weather_forecast.
ToolKnownAny(tool_name) == TRUE

ToolKnown(tool_name) == tool_name \in ToolNames

\* The body of call_tool after `await request.json()`, up to its next await.
CallTool(call, key, b) ==
    IF ~b.json_ok
    THEN ToolError(call, 500, "Expecting value")
    ELSE LET tool_name == JsonGet(b.data, "name", None)
             arguments == JsonGet(b.data, "arguments", EmptyArguments)
             named == [call EXCEPT !.name = tool_name, !.arguments = arguments]
         IN  IF ~ToolKnown(tool_name)
             THEN ToolError(named, 404, "Tool not found")
             ELSE IF tool_name = "get_weather"
             THEN IF ~arguments.dict
                  THEN ToolError(named, 500, "object has no attribute 'get'")
                  ELSE IF ~Truthy(ArgGet(arguments, "city"))
                  THEN ToolError(named, 400, "City parameter is required")
                  ELSE GetWeather(named, key, 1)
             ELSE IF tool_name = "compare_weather"
             THEN IF ~arguments.dict
                  THEN ToolError(named, 500, "object has no attribute 'get'")
                  ELSE IF ~Truthy(ArgGet(arguments, "city1"))
                          \/ ~Truthy(ArgGet(arguments, "city2"))
                  THEN ToolError(named, 400, "Both cities are required")
                  ELSE GetWeather(named, key, 1)
             ELSE ToolResult(named,
                             [text |-> "Weather forecast feature coming soon!"])

\* get_weather from the answer of the weather endpoint to its return, and
\* call_tool from there to its next await or its response.
WeatherResponse(call, key, w) ==
    LET heard == Heard(call, "weather", w, ~w.has_main)
        fetched == [heard EXCEPT
                       !.weather = Append(@, [temperature |-> Round1(w.temp)])]
        city1 == ArgGet(call.arguments, "city1")
        city2 == ArgGet(call.arguments, "city2")
    IN  IF w.fault
        THEN ToolError(heard, 500, "Network error")
        ELSE IF w.status_code # 200
        THEN RaisedInTry(heard, w.status_code, "Weather API error")
        ELSE IF ~w.has_main
        THEN ToolError(heard, 500, "'main'")
        ELSE IF call.name = "get_weather"
             THEN ToolResult(fetched,
                             [city |-> ArgGet(call.arguments, "city"),
                              temperature |-> fetched.weather[1].temperature])
             ELSE IF call.fetch = 1
             THEN GetWeather(fetched, key, 2)
             ELSE ToolResult(fetched,
                             [warmer_city |->
                                  Warmer(city1, city2,
                                         fetched.weather[1].temperature,
                                         fetched.weather[2].temperature),
                              temp_diff |->
                                  TempDiff(fetched.weather[1].temperature,
                                           fetched.weather[2].temperature)])

\* The request is received; the handler is suspended in `await request.json()`.
tool_request ==
    /\ tool_call.pc = "idle"
    /\ tool_call' = [NoCall EXCEPT !.pc = "json"]
    /\ request' = NoRequest
    /\ response' = NoResponse
    /\ UNCHANGED <<oauth, now, OPENWEATHER_API_KEY, streams>>

call_tool(b) ==
    LET out == CallTool(tool_call, OPENWEATHER_API_KEY, b)
    IN  /\ tool_call.pc = "json"
        /\ tool_call' = out.call
        /\ request' = b
        /\ response' = out.response
        /\ UNCHANGED <<oauth, now, OPENWEATHER_API_KEY, streams>>

\* The geocoding endpoint answers `await client.get(...)`.
geo_response(g) ==
    LET out == GeoResponse(tool_call, g)
    IN  /\ tool_call.pc = "geo"
        /\ tool_call' = out.call
        /\ request' = NoRequest
        /\ response' = out.response
        /\ UNCHANGED <<oauth, now, OPENWEATHER_API_KEY, streams>>

\* The weather endpoint answers `await client.get(...)`.
weather_response(w) ==
    LET out == WeatherResponse(tool_call, OPENWEATHER_API_KEY, w)
    IN  /\ tool_call.pc = "weather"
        /\ tool_call' = out.call
        /\ request' = NoRequest
        /\ response' = out.response
        /\ UNCHANGED <<oauth, now, OPENWEATHER_API_KEY, streams>>

\* ------------------------------------- app/services: WeatherService.get_weather
\* The get_weather tool of the FastMCP server (app/mcp/tools/weather.py) calls
\* the WeatherService of app/services/weather_service.py, which reads the body
\* of each answer without looking at its status.  An answer is a network fault,
\* or a status with a body: the list or record asked for, an empty list, or the
\* error object of the provider.
Statuses == {200, 401}

ServiceGeoAnswers ==
    {[fault |-> TRUE, status_code |-> 0, body |-> "none"]}
    \cup {[fault |-> FALSE, status_code |-> st, body |-> body] :
            st \in Statuses, body \in {"places", "empty_list", "error_object"}}

ServiceWeatherAnswers ==
    {[fault |-> TRUE, status_code |-> 0, body |-> "none"]}
    \cup {[fault |-> FALSE, status_code |-> st, body |-> body] :
            st \in Statuses, body \in {"weather", "error_object"}}

\* The tool call ends with an exception: an HTTPException with its status, or
\* another exception, which is given the status 500 of an unhandled one.
ServiceError(call, status_code, detail) ==
    [call |-> [call EXCEPT !.pc = "idle"],
     response |-> HTTPException("mcp_tool", status_code, detail, None)]

\* get_weather up to its first await.
ServiceGetWeather(call, key) ==
    IF ~Truthy(key)
    THEN ServiceError([call EXCEPT !.fetch = 1], 500, "API key not configured")
    ELSE [call |-> [call EXCEPT !.pc = "service_geo", !.fetch = 1,
                                !.remote = Append(@, [fetch |-> 1, url |-> "geo"])],
          response |-> NoResponse]

\* From the answer of the geocoding endpoint to the next await: geo_data[0] of
\* an error object raises KeyError.
ServiceGeoResponse(call, g) ==
    LET heard == Heard(call, "geo", g, g.body # "places")
    IN  IF g.fault
        THEN ServiceError(heard, 500, "httpx.RequestError")
        ELSE IF g.body = "empty_list"
        THEN ServiceError(heard, 404, "City not found")
        ELSE IF g.body = "error_object"
        THEN ServiceError(heard, 500, "KeyError: 0")
        ELSE [call |-> [heard EXCEPT !.pc = "service_weather",
                                     !.remote = Append(@, [fetch |-> call.fetch,
                                                           url |-> "weather"])],
              response |-> NoResponse]

\* From the answer of the weather endpoint to the return: data["name"] of an
\* error object raises KeyError.
ServiceWeatherResponse(call, w) ==
    LET heard == Heard(call, "weather", w, w.body # "weather")
    IN  IF w.fault
        THEN ServiceError(heard, 500, "httpx.RequestError")
        ELSE IF w.body = "error_object"
        THEN ServiceError(heard, 500, "KeyError: 'name'")
        ELSE [call |-> [heard EXCEPT !.pc = "idle"],
              response |-> [op |-> "mcp_tool", status |-> 200, detail |-> "",
                            code |-> None, log |-> None,
                            body |-> [city |-> call.arguments.items.city]]]

\* The tool is called with a city.
mcp_get_weather(city) ==
    LET arguments == [dict |-> TRUE, items |-> [city |-> city]]
        out == ServiceGetWeather([NoCall EXCEPT !.name = "get_weather",
                                                !.arguments = arguments],
                                 OPENWEATHER_API_KEY)
    IN  /\ tool_call.pc = "idle"
        /\ tool_call' = out.call
        /\ request' = NoRequest
        /\ response' = out.response
        /\ UNCHANGED <<oauth, now, OPENWEATHER_API_KEY, streams>>

service_geo_response(g) ==
    LET out == ServiceGeoResponse(tool_call, g)
    IN  /\ tool_call.pc = "service_geo"
        /\ tool_call' = out.call
        /\ request' = NoRequest
        /\ response' = out.response
        /\ UNCHANGED <<oauth, now, OPENWEATHER_API_KEY, streams>>

service_weather_response(w) ==
    LET out == ServiceWeatherResponse(tool_call, w)
    IN  /\ tool_call.pc = "service_weather"
        /\ tool_call' = out.call
        /\ request' = NoRequest
        /\ response' = out.response
        /\ UNCHANGED <<oauth, now, OPENWEATHER_API_KEY, streams>>

\* ------------------------------------------------------------------ GET /sse
\* The handler as written: event_generator() creates the generator and
\* Response(content=...) is given it.  Response renders its content when it is
\* constructed (content.encode(charset) for anything but bytes), which raises
\* AttributeError for a generator: the request is answered 500 and the generator
\* is dropped without having been iterated.
mcp_sse_endpoint ==
    /\ request' = NoRequest
    /\ response' = HTTPException("sse", 500, "Internal Server Error", None)
    /\ UNCHANGED <<oauth, now, OPENWEATHER_API_KEY, tool_call, streams>>

\* The steps of event_generator when it is iterated, as a streaming response
\* iterates its content: from one suspension (a yield, or the await of
\* asyncio.sleep) to the next.
Event(type, t) == [type |-> type, timestamp |-> t]

Heartbeats(stream) ==
    Cardinality({k \in DOMAIN stream.events : stream.events[k].type = "heartbeat"})

\* The generator is at the yield of the heartbeat: it was resumed after the
\* first yield, or its sleep has ended.
CanBeat(stream, t) ==
    \/ stream.pc = "connected"
    \/ stream.pc = "sleep" /\ t >= stream.wake

\* yield mcp_connected: the generator is created and runs to its first yield.
stream_connect(i) ==
    /\ streams[i].pc = "none"
    /\ \A j \in 1..(i - 1) : streams[j].pc # "none"
    /\ streams' = [streams EXCEPT ![i].pc = "connected",
                                  ![i].events = <<Event("mcp_connected", now)>>]
    /\ request' = NoRequest
    /\ response' = NoResponse
    /\ UNCHANGED <<oauth, now, OPENWEATHER_API_KEY, tool_call>>

\* yield heartbeat
stream_heartbeat(i) ==
    /\ CanBeat(streams[i], now)
    /\ Heartbeats(streams[i]) < MaxBeats
    /\ streams' = [streams EXCEPT ![i].pc = "beat",
                                  ![i].events = Append(@, Event("heartbeat", now))]
    /\ request' = NoRequest
    /\ response' = NoResponse
    /\ UNCHANGED <<oauth, now, OPENWEATHER_API_KEY, tool_call>>

\* await asyncio.sleep(30)
stream_sleep(i) ==
    /\ streams[i].pc = "beat"
    /\ streams' = [streams EXCEPT ![i].pc = "sleep", ![i].wake = now + HEARTBEAT]
    /\ request' = NoRequest
    /\ response' = NoResponse
    /\ UNCHANGED <<oauth, now, OPENWEATHER_API_KEY, tool_call>>

\* Mutant: a cancelled generator goes back to sleep.
CancelledIgnored(stream, t) == [stream EXCEPT !.ended_at = t]

\* The stream is cancelled: asyncio.CancelledError is raised at the await of the
\* sleep and caught by the except clause, or the generator is closed at the
\* yield it is suspended at; either way the generator returns.
Cancelled(stream, t) == [stream EXCEPT !.pc = "done", !.ended_at = t]

stream_cancel(i) ==
    /\ streams[i].pc \in {"connected", "beat", "sleep"}
    /\ streams' = [streams EXCEPT ![i] = Cancelled(@, now)]
    /\ request' = NoRequest
    /\ response' = NoResponse
    /\ UNCHANGED <<oauth, now, OPENWEATHER_API_KEY, tool_call>>

\* Time passes, by one heartbeat period.
PassSteps == {HEARTBEAT}

Pass(d) ==
    /\ now + d < HEARTBEAT * MaxBeats
    /\ now' = now + d
    /\ request' = NoRequest
    /\ response' = NoResponse
    /\ UNCHANGED <<oauth, OPENWEATHER_API_KEY, tool_call, streams>>

\* ---------------------------------------------------------------- GET /health
\* What the probe of the weather API answers: a network fault, or a status.
ProbeAnswers ==
    {[fault |-> TRUE, status_code |-> 0],
     [fault |-> FALSE, status_code |-> 200],
     [fault |-> FALSE, status_code |-> 401]}

\* No probe was made: the key is not configured.
NoProbe == [fault |-> FALSE, status_code |-> 0]

\* api_status
ApiStatus(key, a) ==
    IF ~Truthy(key) THEN "not_configured"
    ELSE IF a.fault THEN "error: network"
    ELSE IF a.status_code = 200 THEN "working"
    ELSE "error"

\* sum(1 for client in OAUTH_CLIENTS.values() if client.get("active", True))
ActiveClients(clients) ==
    Cardinality({i \in DOMAIN clients : JsonGet(clients[i].v, "active", TRUE)})

\* The response of the handler, for the answer a of its probe.
HealthCheck(clients, key, a) ==
    [op |-> "health", status |-> 200, detail |-> "", code |-> None, log |-> None,
     body |-> [status |-> "healthy",
               weather_api |-> ApiStatus(key, a),
               oauth_clients |-> ActiveClients(clients)]]

\* The request is received with the key configured; the handler is suspended in
\* `await client.get(...)`.
health_request ==
    /\ Truthy(OPENWEATHER_API_KEY)
    /\ suspended.health < MaxReqs
    /\ suspended' = [suspended EXCEPT !.health = @ + 1]
    /\ request' = NoRequest
    /\ response' = NoResponse
    /\ UNCHANGED <<OAUTH_CLIENTS, authorization_codes, now, issued, tokens>>
    /\ UNCHANGED service

\* The handler from the answer of its probe on, or the whole of it when the key
\* is not configured and it awaits nothing.
health_check(a) ==
    /\ IF Truthy(OPENWEATHER_API_KEY)
       THEN /\ a \in ProbeAnswers
            /\ suspended.health > 0
            /\ suspended' = [suspended EXCEPT !.health = @ - 1]
       ELSE /\ a = NoProbe
            /\ suspended' = suspended
    /\ request' = NoRequest
    /\ response' = HealthCheck(OAUTH_CLIENTS, OPENWEATHER_API_KEY, a)
    /\ UNCHANGED <<OAUTH_CLIENTS, authorization_codes, now, issued, tokens>>
    /\ UNCHANGED service

\* ------------------------------------------------------------ requests sent
IssuedCodes == {issued[i].code : i \in DOMAIN issued}

\* The query oauth_authorize was given for an issued code.
QueryFor(c) == issued[CHOOSE i \in DOMAIN issued : issued[i].code = c].query

ResponseTypes == {None, "code", "token"}
ClientIds == DictKeys(OAUTH_CLIENTS) \cup {None, "", "unknown_client"}
RedirectUris == {None, "", QS_CALLBACK, APP_CALLBACK}
Scopes == {None, "", "weather:read", "openid mcp:stream", "weather:read admin"}
Challenges == {<<None, None>>, <<"challenge_1", "S256">>}
Codes == IssuedCodes \cup {"never_issued"}
Verifiers == {None, "verifier_1", "verifier_2"}

Query(rt, c, u, st, sc, k) ==
    [response_type |-> rt, client_id |-> c, redirect_uri |-> u, state |-> st,
     scope |-> sc, code_challenge |-> k[1], code_challenge_method |-> k[2]]

Form(g, code, u, c, secret, v) ==
    [grant_type |-> g, code |-> code, redirect_uri |-> u, client_id |-> c,
     client_secret |-> secret, code_verifier |-> v]

\* ------------------------------------------------------------- the exchange
\* Registered clients authorize at one of the two callbacks; a token form carries
\* the secret of the client it names, or is wrong in one of grant type, client
\* and secret.  Requests are served one after the other: a request is received,
\* and the clock advances, only while no other request is suspended.
SecretOf(c) == DictGet(OAUTH_CLIENTS, c).client_secret

ExchangeQueries ==
    {Query(None, c, u, None, None, <<None, None>>) :
        c \in DictKeys(OAUTH_CLIENTS), u \in {QS_CALLBACK, APP_CALLBACK}}

ExchangeForms ==
    {Form("authorization_code", code, u, c, SecretOf(c), None) :
        code \in Codes, u \in {QS_CALLBACK, APP_CALLBACK}, c \in DictKeys(OAUTH_CLIENTS)}
    \cup {Form("password", code, QS_CALLBACK, c, SecretOf(c), None) :
            code \in Codes, c \in DictKeys(OAUTH_CLIENTS)}
    \cup {Form("authorization_code", code, QS_CALLBACK, "unknown_client", None, None) :
            code \in Codes}
    \cup {Form("authorization_code", code, QS_CALLBACK, c, None, None) :
            code \in Codes, c \in DictKeys(OAUTH_CLIENTS)}

\* No request is suspended at an await.
Quiet == Suspended = 0

\* Codes issued, exchanged, replayed and swept as the clock advances.
Next ==
    \/ Quiet /\ \E d \in TickSteps : Tick(d)
    \/ Quiet /\ \E q \in ExchangeQueries : oauth_authorize(q)
    \/ Quiet /\ token_request
    \/ \E f \in ExchangeForms : oauth_token(f)

Spec == Init /\ [][Next]_vars

\* ------------------------------------------------------------- the clients
\* Clients register with a callback of their own, and present their codes and
\* those of the others.
ExchangeBodies == {[json_ok |-> TRUE, data |-> [redirect_uris |-> <<APP_CALLBACK>>]]}

NextClients ==
    \/ Quiet /\ register_request
    \/ \E b \in ExchangeBodies : register_client(b)
    \/ Quiet /\ \E q \in ExchangeQueries : oauth_authorize(q)
    \/ Quiet /\ token_request
    \/ \E f \in ExchangeForms : oauth_token(f)

SpecClients == Init /\ [][NextClients]_vars

\* --------------------------------------------------------------- the races
\* Requests interleaved at their awaits, and with the clock, in every order.
RaceForms ==
    {Form("authorization_code", code, u, c, SecretOf(c), None) :
        code \in Codes, u \in {QS_CALLBACK, APP_CALLBACK}, c \in DictKeys(OAUTH_CLIENTS)}

NextAsync ==
    \/ \E d \in TickSteps : Tick(d)
    \/ \E q \in ExchangeQueries : oauth_authorize(q)
    \/ token_request
    \/ \E f \in RaceForms : oauth_token(f)

SpecAsync == Init /\ [][NextAsync]_vars

\* ------------------------------------------------------- authorize's checks
\* Queries right or wrong in any of response_type, client_id and redirect_uri.
CheckedQueries ==
    {Query(rt, c, u, None, None, <<None, None>>) :
        rt \in ResponseTypes, c \in ClientIds, u \in RedirectUris}

NextAuthorize ==
    \/ Quiet /\ \E q \in CheckedQueries : oauth_authorize(q)
    \/ Quiet /\ register_request
    \/ \E b \in ExchangeBodies : register_client(b)

SpecAuthorize == Init /\ [][NextAuthorize]_vars

\* ------------------------------------------------------------ the registry
\* Registrations with bodies that do not parse, that are empty, and that name
\* the client and its redirect_uris.
RegistryBodies ==
    {[json_ok |-> FALSE, data |-> <<>>],
     [json_ok |-> TRUE, data |-> <<>>],
     [json_ok |-> TRUE, data |-> [name |-> "Dashboards"]],
     [json_ok |-> TRUE,
      data |-> [name |-> "Dashboards", redirect_uris |-> <<APP_CALLBACK>>]]}

\* Registrations interleaved at their awaits, and with listings and the clock.
NextRegistry ==
    \/ \E d \in TickSteps : Tick(d)
    \/ register_request
    \/ \E b \in RegistryBodies : register_client(b)
    \/ list_clients

SpecRegistry == Init /\ [][NextRegistry]_vars

\* ------------------------------------------------------------ the responses
\* Every handler that answers, served one request after the other.
ResponseQueries ==
    {Query("code", c, u, None, None, <<None, None>>) :
        c \in DictKeys(OAUTH_CLIENTS), u \in {QS_CALLBACK, APP_CALLBACK}}

ResponseForms ==
    UNION {{Form("authorization_code", code, QueryFor(code).redirect_uri, c, secret, None) :
                code \in IssuedCodes, secret \in {SecretOf(c), None}} :
           c \in DictKeys(OAUTH_CLIENTS)}

NextResponses ==
    \/ Quiet /\ register_request
    \/ \E b \in RegistryBodies : register_client(b)
    \/ Quiet /\ list_clients
    \/ Quiet /\ \E q \in ResponseQueries : oauth_authorize(q)
    \/ Quiet /\ token_request
    \/ \E f \in ResponseForms : oauth_token(f)

SpecResponses == InitKeyed /\ [][NextResponses]_vars

\* ---------------------------------------------------------------- the tools
\* Tool calls with a body that does not parse, with each tool name, an unknown
\* one and none, and with arguments that are complete, incomplete, empty or not
\* a JSON object.
Args(items) == [dict |-> TRUE, items |-> items]

NotAnObject == [dict |-> FALSE, items |-> <<>>]

ToolBody(tool_name, arguments) ==
    [json_ok |-> TRUE, data |-> [name |-> tool_name, arguments |-> arguments]]

ToolBodies ==
    {[json_ok |-> FALSE, data |-> <<>>],
     [json_ok |-> TRUE, data |-> <<>>],
     [json_ok |-> TRUE, data |-> [name |-> "get_weather"]],
     ToolBody("get_weather", Args([city |-> "Paris"])),
     ToolBody("get_weather", Args([city |-> "Oslo", country_code |-> "NO"])),
     ToolBody("get_weather", Args([city |-> ""])),
     ToolBody("get_weather", NotAnObject),
     ToolBody("get_weather_forecast", Args([city |-> "Paris"])),
     ToolBody("compare_weather", Args([city1 |-> "Paris", city2 |-> "Oslo"])),
     ToolBody("compare_weather", Args([city1 |-> "Oslo", city2 |-> "Oslo"])),
     ToolBody("compare_weather", Args([city1 |-> "Paris"])),
     ToolBody("get_time", Args(<<>>)),
     ToolBody("get_time", Args([city |-> "Paris"])),
     ToolBody("get_time", NotAnObject),
     ToolBody("", Args([city1 |-> "Paris", city2 |-> "Oslo"]))}

NextTools ==
    \/ tool_request
    \/ \E b \in ToolBodies : call_tool(b)
    \/ \E g \in GeoAnswers : geo_response(g)
    \/ \E w \in WeatherAnswers : weather_response(w)

SpecTools == Init /\ [][NextTools]_vars

\* --------------------------------------------------------------- the fetches
\* The tool calls of /api/tools/call and of the FastMCP server, one at a time.
NextFetch ==
    \/ tool_request
    \/ \E b \in ToolBodies : call_tool(b)
    \/ \E g \in GeoAnswers : geo_response(g)
    \/ \E w \in WeatherAnswers : weather_response(w)
    \/ \E city \in {"Paris", "Oslo"} : mcp_get_weather(city)
    \/ \E g \in ServiceGeoAnswers : service_geo_response(g)
    \/ \E w \in ServiceWeatherAnswers : service_weather_response(w)

SpecFetch == Init /\ [][NextFetch]_vars

\* --------------------------------------------------------------- the streams
NextStream ==
    \/ \E d \in PassSteps : Pass(d)
    \/ mcp_sse_endpoint
    \/ \E i \in 1..MaxStreams : stream_connect(i)
    \/ \E i \in 1..MaxStreams : stream_heartbeat(i)
    \/ \E i \in 1..MaxStreams : stream_sleep(i)
    \/ \E i \in 1..MaxStreams : stream_cancel(i)

SpecStream == Init /\ [][NextStream]_vars

\* ------------------------------------------------------------ all at once
\* Authorize, token, register and list requests interleaved at their awaits,
\* and with the clock, in every order: each client authorizes at its first
\* callback (the fallback client, which has none, at the QuickSight one), and
\* presents the codes issued so far at the callback they were issued for.
CallbackOf(c) ==
    LET redirect_uris == DictGet(OAUTH_CLIENTS, c).redirect_uris
    IN  IF redirect_uris = <<>> THEN QS_CALLBACK ELSE redirect_uris[1]

ConcurrentQueries ==
    {Query(None, c, CallbackOf(c), None, None, <<None, None>>) :
        c \in DictKeys(OAUTH_CLIENTS)}

ConcurrentForms ==
    {Form("authorization_code", code, QueryFor(code).redirect_uri, c, SecretOf(c),
          None) : code \in IssuedCodes, c \in DictKeys(OAUTH_CLIENTS)}

\* Codes and registrations share one allowance.
Allowance == Len(issued) + Registered < MaxCodes

NextConcurrent ==
    \/ \E d \in TickSteps : Tick(d)
    \/ Allowance /\ \E q \in ConcurrentQueries : oauth_authorize(q)
    \/ token_request
    \/ \E f \in ConcurrentForms : oauth_token(f)
    \/ register_request
    \/ Allowance /\ \E b \in ExchangeBodies : register_client(b)
    \/ list_clients

SpecConcurrent == InitKeyed /\ [][NextConcurrent]_vars

\* ------------------------------------------------------------ every handler
\* Every handler that reads or writes the registry, and the tool calls, the
\* health check and the event stream beside them.
FrameBodies ==
    {ToolBody("get_weather", Args([city |-> "Paris"])),
     ToolBody("get_time", Args(<<>>))}

\* The requests served so far that left something in the state: codes issued,
\* clients registered, the tool call, event generators created.
Served ==
    Len(issued) + Registered
        + (IF tool_call.pc = "idle" THEN 0 ELSE 1)
        + Cardinality({i \in 1..MaxStreams : streams[i].pc # "none"})

Room == Served < MaxCodes

\* No token, register or health request is suspended at its await: in this
\* specification they are received one at a time.
Resting == Suspended = 0 /\ suspended.health = 0

NextFrame ==
    \/ Room /\ \E q \in ConcurrentQueries : oauth_authorize(q)
    \/ Resting /\ token_request
    \/ \E f \in ConcurrentForms : oauth_token(f)
    \/ Resting /\ register_request
    \/ Room /\ \E b \in ExchangeBodies : register_client(b)
    \/ list_clients
    \/ Room /\ tool_request
    \/ \E b \in FrameBodies : call_tool(b)
    \/ \E g \in GeoAnswers : geo_response(g)
    \/ \E w \in WeatherAnswers : weather_response(w)
    \/ Resting /\ health_request
    \/ \E a \in ProbeAnswers \cup {NoProbe} : health_check(a)
    \/ mcp_sse_endpoint
    \/ Room /\ \E i \in 1..MaxStreams : stream_connect(i)
    \/ \E i \in 1..MaxStreams : stream_heartbeat(i)
    \/ \E i \in 1..MaxStreams : stream_sleep(i)
    \/ \E i \in 1..MaxStreams : stream_cancel(i)

SpecFrame == Init /\ [][NextFrame]_vars

\* ------------------------------------------------- the optional parameters
\* Registered clients authorize at the QuickSight callback, sending a scope, a state or a PKCE challenge, and redeem the code
\* with or without a code_verifier.
ParamQueries ==
    {Query("code", c, QS_CALLBACK, None, sc, <<None, None>>) :
        c \in DictKeys(OAUTH_CLIENTS), sc \in Scopes}
    \cup {Query("code", c, QS_CALLBACK, "xyz", None, <<None, None>>) :
            c \in DictKeys(OAUTH_CLIENTS)}
    \cup {Query("code", c, QS_CALLBACK, None, None, k) :
            c \in DictKeys(OAUTH_CLIENTS), k \in Challenges}

ParamForms ==
    {Form("authorization_code", code, QS_CALLBACK, c, SecretOf(c), v) :
        code \in Codes, c \in DictKeys(OAUTH_CLIENTS), v \in Verifiers}

NextParams ==
    \/ Quiet /\ \E q \in ParamQueries : oauth_authorize(q)
    \/ Quiet /\ token_request
    \/ \E f \in ParamForms : oauth_token(f)

SpecParams == Init /\ [][NextParams]_vars

\* ================================================================ properties
\* The error taxonomy of the specification, by handler and detail.
ErrorName(r) ==
    CASE r.status = 200 \/ r.status = 307 -> "none"
      [] r.detail = "Missing required parameters: client_id and redirect_uri"
            -> "InvalidRequest"
      [] r.detail = "Invalid client ID" \/ r.detail = "Invalid client secret"
            -> "InvalidClient"
      [] r.detail = "Invalid redirect URI" -> "InvalidRedirectUri"
      [] r.detail = "Unsupported response type. Only 'code' is supported."
            -> "UnsupportedResponseType"
      [] r.detail = "Unsupported grant type. Only 'authorization_code' is supported."
            -> "UnsupportedGrantType"
      [] r.detail \in {"Invalid or expired authorization code",
                       "Authorization code expired", "Redirect URI mismatch",
                       "Client ID mismatch"}
            -> "InvalidGrant"
      [] OTHER -> "Other"

\* The step answered a token request / answered it with an access token.
TokenAnswered(r) == r.op = "token"
TokenGranted(r) == r.op = "token" /\ r.status = 200

\* The token requests that returned an access token for the code c.
Exchanges(c) == {i \in DOMAIN tokens : tokens[i].code = c}

\* The form names the supported grant type and a registered client with its secret.
CredentialsPass(clients, f) ==
    /\ f.grant_type = "authorization_code"
    /\ DictHas(clients, f.client_id)
    /\ DictGet(clients, f.client_id).client_secret = f.client_secret

\* The request failed, and with InvalidGrant if it got as far as the code.
FailsWithInvalidGrant(clients, f, r) ==
    /\ r.status = 400
    /\ CredentialsPass(clients, f) => ErrorName(r) = "InvalidGrant"

\* What oauth_authorize stored for an issued code.
StoredFor(c) == issued[CHOOSE i \in DOMAIN issued : issued[i].code = c].stored

\* C1: an issued code returns an access token to at most one token request, and a
\* token request presenting a code that was exchanged before fails with
\* InvalidGrant (HTTP 400).
C1_AtMostOnce == \A c \in IssuedCodes : Cardinality(Exchanges(c)) <= 1

C1_ReplayFails ==
    TokenAnswered(response') /\ Exchanges(response'.code) # {}
        => FailsWithInvalidGrant(OAUTH_CLIENTS, request', response')

C1_SingleUse == []C1_AtMostOnce /\ [][C1_ReplayFails]_vars

\* A replay of an exchanged code, with valid credentials, was refused.
C1_Witness ==
    /\ TokenAnswered(response)
    /\ Exchanges(response.code) # {}
    /\ CredentialsPass(OAUTH_CLIENTS, request)
    /\ response.detail = "Invalid or expired authorization code"

\* C2: with token requests interleaved at their awaits, a request that finds the
\* code in the store removes it in the same step, and is granted a token only if
\* no request was granted one for that code before: of the requests racing for a
\* code at most one returns an access token.
C2_TestAndRemove ==
    /\ TokenAnswered(response')
    /\ CredentialsPass(OAUTH_CLIENTS, request')
    /\ DictHas(authorization_codes, request'.code)
    => /\ ~DictHas(authorization_codes', request'.code)
       /\ TokenGranted(response') => Exchanges(request'.code) = {}

C2_OneWinner ==
    TokenGranted(response') =>
        /\ Exchanges(request'.code) = {}
        /\ DictHas(authorization_codes, request'.code)

C2_Race == [][C2_TestAndRemove /\ C2_OneWinner]_vars

\* A request was granted a token while another token request was suspended, and a
\* later request with valid credentials for the same code was refused.
C2_Witness ==
    /\ TokenAnswered(response)
    /\ response.detail = "Invalid or expired authorization code"
    /\ CredentialsPass(OAUTH_CLIENTS, request)
    /\ \E i \in Exchanges(response.code) : tokens[i].raced

\* C3: a token request made after the code's expires_at (600 s after it was
\* issued) returns no access token and fails with InvalidGrant, used or not, swept
\* or not; and no request made at or before expires_at is refused as expired.
C3_Expiry ==
    TokenAnswered(response) /\ response.code \in IssuedCodes =>
        LET stored == StoredFor(response.code)
        IN  /\ stored.expires_at = stored.created_at + 600
            /\ now > stored.expires_at
                  => FailsWithInvalidGrant(OAUTH_CLIENTS, request, response)
            /\ response.detail = "Authorization code expired"
                  => now > stored.expires_at

\* A code that was never exchanged and is still in the store was refused as expired.
C3_Witness ==
    /\ TokenAnswered(response)
    /\ response.detail = "Authorization code expired"
    /\ Exchanges(response.code) = {}

\* C4: a token request returns an access token only if its redirect_uri and
\* client_id equal those stored with the code; if either differs it fails with
\* InvalidGrant and returns no token.
C4_Binding ==
    TokenAnswered(response) /\ response.code \in IssuedCodes =>
        LET stored == StoredFor(response.code)
            same == /\ request.redirect_uri = stored.redirect_uri
                    /\ request.client_id = stored.client_id
        IN  /\ TokenGranted(response) => same
            /\ ~same => FailsWithInvalidGrant(OAUTH_CLIENTS, request, response)

\* A registered client presented, with its own secret and the right redirect_uri,
\* a code issued to another client, and was refused.
C4_Witness ==
    /\ TokenAnswered(response)
    /\ response.detail = "Client ID mismatch"
    /\ CredentialsPass(OAUTH_CLIENTS, request)
    /\ request.redirect_uri = StoredFor(response.code).redirect_uri

\* RFC 7636: the challenge a verifier answers under the S256 method (a table of
\* the transform over the verifiers in use), and the verification of a verifier.
ChallengeOf(code_verifier) ==
    CASE code_verifier = "verifier_1" -> "challenge_1"
      [] code_verifier = "verifier_2" -> "challenge_2"
      [] OTHER -> None

PkceVerifies(code_verifier, code_challenge) ==
    code_verifier # None /\ ChallengeOf(code_verifier) = code_challenge

\* C5: when a code_challenge was stored with the code, a token request returns an
\* access token only if its code_verifier verifies against that challenge; a
\* missing or non-matching code_verifier yields no token.
C5_PkceVerified ==
    TokenGranted(response) /\ Truthy(StoredFor(response.code).code_challenge)
        => PkceVerifies(request.code_verifier, StoredFor(response.code).code_challenge)

\* C6: oauth_authorize stores and redirects with a code only when client_id and
\* redirect_uri are present, client_id is registered, redirect_uri is one of the
\* client's redirect_uris and response_type is "code"; otherwise it fails with
\* InvalidRequest, InvalidClient, InvalidRedirectUri or UnsupportedResponseType,
\* the first that applies in that order, and leaves the code store unchanged.
ExpectedError(clients, q) ==
    IF q.client_id \in {None, ""} \/ q.redirect_uri \in {None, ""}
    THEN "InvalidRequest"
    ELSE IF q.client_id \notin DictKeys(clients)
    THEN "InvalidClient"
    ELSE IF \A i \in DOMAIN DictGet(clients, q.client_id).redirect_uris :
                DictGet(clients, q.client_id).redirect_uris[i] # q.redirect_uri
    THEN "InvalidRedirectUri"
    ELSE IF q.response_type \notin {None, "code"}
    THEN "UnsupportedResponseType"
    ELSE "none"

C6_Step ==
    response'.op = "authorize" =>
        IF ExpectedError(OAUTH_CLIENTS, request') = "none"
        THEN /\ response'.status = 307
             /\ response'.body.code = response'.code
             /\ response'.body.location = request'.redirect_uri
             /\ ~DictHas(authorization_codes, response'.code)
             /\ DictHas(authorization_codes', response'.code)
        ELSE /\ response'.status = 400
             /\ ErrorName(response') = ExpectedError(OAUTH_CLIENTS, request')
             /\ authorization_codes' = authorization_codes

C6_AuthorizeChecks == [][C6_Step]_vars

\* A query wrong in redirect_uri and in response_type was refused for the
\* redirect_uri, with codes in the store.
C6_Witness ==
    /\ response.op = "authorize"
    /\ request.response_type = "token"
    /\ ErrorName(response) = "InvalidRedirectUri"
    /\ authorization_codes # <<>>

\* C7: scope never makes oauth_authorize fail: a query that passes the checks on
\* client_id, redirect_uri and response_type is redirected with a code whatever
\* its scope; and the token granted for that code carries the scope given to
\* oauth_authorize when it was a non-empty string, "weather:read" when none or an
\* empty one was given, with expires_in = 3600 and token_type "bearer".
C7_NeverRejects ==
    response.op = "authorize" /\ ExpectedError(OAUTH_CLIENTS, request) = "none"
        => response.status = 307

C7_TokenShape ==
    TokenGranted(response) =>
        /\ response.body.expires_in = 3600
        /\ response.body.token_type = "bearer"

C7_ScopeEcho ==
    /\ C7_NeverRejects
    /\ C7_TokenShape
    /\ TokenGranted(response) =>
          response.body.scope =
              IF QueryFor(response.code).scope \in {None, ""}
              THEN "weather:read"
              ELSE QueryFor(response.code).scope

\* A token was granted for a code authorized with a scope that is unrecognized
\* and outside the client's registered scopes, and carries that scope.
C7_Witness ==
    /\ TokenGranted(response)
    /\ QueryFor(response.code).scope = "weather:read admin"
    /\ response.body.scope = "weather:read admin"

\* C7 as stated: the token carries exactly the scope string given, "weather:read"
\* only when none was given.
C7_EchoesExactly ==
    /\ C7_NeverRejects
    /\ C7_TokenShape
    /\ TokenGranted(response) =>
          response.body.scope =
              IF QueryFor(response.code).scope = None
              THEN "weather:read"
              ELSE QueryFor(response.code).scope

\* The registry with every client_secret replaced by another one.
Resecret(clients) ==
    [i \in DOMAIN clients |->
        [k |-> clients[i].k,
         v |-> [clients[i].v EXCEPT !.client_secret = "another_secret"]]]

\* The string s is the detail or a string-valued field of the response r, or of
\* one of the entries of a listing.
StringFields ==
    {"client_id", "client_secret", "name", "access_token", "id_token",
     "token_type", "scope", "location", "code", "state"}

FieldCarries(body, s) == \E f \in DOMAIN body \cap StringFields : body[f] = s

Carries(r, s) ==
    \/ r.detail = s
    \/ r.status \in {200, 307} /\ r.op # "list" /\ FieldCarries(r.body, s)
    \/ r.status = 200 /\ r.op = "list"
         /\ \E i \in DOMAIN r.body.clients : FieldCarries(r.body.clients[i], s)

\* C8: the listing is the same for registries that differ only in their client
\* secrets and no entry of it has a client_secret; and a response carries the
\* secret of a registered client only if it is the response of the register call
\* that created that client.
C8_ListingIgnoresSecrets ==
    /\ ListClients(Resecret(OAUTH_CLIENTS)) = ListClients(OAUTH_CLIENTS)
    /\ response.op = "list" =>
          /\ response = ListClients(Resecret(OAUTH_CLIENTS))
          /\ response.status = 200 =>
                \A i \in DOMAIN response.body.clients :
                    "client_secret" \notin DOMAIN response.body.clients[i]

C8_SecretAtCreationOnly ==
    \A i \in DOMAIN OAUTH_CLIENTS' :
        Carries(response', OAUTH_CLIENTS'[i].v.client_secret) =>
            /\ response'.op = "register"
            /\ response'.status = 200
            /\ response'.body.client_id = OAUTH_CLIENTS'[i].k
            /\ ~DictHas(OAUTH_CLIENTS, OAUTH_CLIENTS'[i].k)

C8_SecretsStayPrivate ==
    []C8_ListingIgnoresSecrets /\ [][C8_SecretAtCreationOnly]_vars

\* A registry with a dynamically registered client was listed.
C8_Witness ==
    /\ response.op = "list"
    /\ response.status = 200
    /\ Len(response.body.clients) > 1
    /\ \E i \in DOMAIN OAUTH_CLIENTS : OAUTH_CLIENTS[i].v.client_secret \in SeqToSet(SecretPool)

\* C9: in every reachable state of the registry the listing succeeds and has
\* exactly one entry per registered client, active or not.
C9_ListSucceeds ==
    response.op = "list" =>
        /\ response.status = 200
        /\ Len(response.body.clients) = Len(OAUTH_CLIENTS)
        /\ \A i \in DOMAIN OAUTH_CLIENTS :
              response.body.clients[i].client_id = OAUTH_CLIENTS[i].k

\* C10: a successful register call stores a client with active = true and scopes
\* {weather:read} under a client_id that no client of the registry has, and
\* leaves every client of the registry as it was.
C10_Step ==
    response'.op = "register" /\ response'.status = 200 =>
        LET client_id == response'.body.client_id
        IN  /\ ~DictHas(OAUTH_CLIENTS, client_id)
            /\ DictHas(OAUTH_CLIENTS', client_id)
            /\ DictGet(OAUTH_CLIENTS', client_id).active = TRUE
            /\ DictGet(OAUTH_CLIENTS', client_id).scopes = <<"weather:read">>
            /\ Len(OAUTH_CLIENTS') = Len(OAUTH_CLIENTS) + 1
            /\ \A k \in DictKeys(OAUTH_CLIENTS) :
                  /\ DictHas(OAUTH_CLIENTS', k)
                  /\ DictGet(OAUTH_CLIENTS', k) = DictGet(OAUTH_CLIENTS, k)

C10_RegisterAddsFresh == [][C10_Step]_vars

\* A client was registered beside the client of the configuration.
C10_Witness ==
    /\ response.op = "register"
    /\ response.status = 200
    /\ Len(OAUTH_CLIENTS) > 1
    /\ DictHas(OAUTH_CLIENTS, response.body.client_id)
    /\ OAUTH_CLIENTS[1].k # response.body.client_id

\* The error taxonomy of the specification for a tool call, by status and detail.
ToolErrorName(r) ==
    CASE r.status = 200 -> "none"
      [] r.status = 404 -> "NotFound"
      [] r.status = 400 -> "InvalidRequest"
      [] r.status = 500 /\ r.detail = "OpenWeatherMap API key not configured"
            -> "ConfigurationError"
      [] OTHER -> "Other"

\* The last answer the tool call received from a remote endpoint.
LastAnswer == tool_call.answered[Len(tool_call.answered)]

\* The remote calls the tool call made to url in its fetch n.
RemoteCalls(n, url) ==
    {i \in DOMAIN tool_call.remote :
        tool_call.remote[i].fetch = n /\ tool_call.remote[i].url = url}

\* The body asks for a tool, with arguments, that fetches the weather.
FetchesWeather(b) ==
    /\ DOMAIN b # {}
    /\ b.json_ok
    /\ "name" \in DOMAIN b.data
    /\ "arguments" \in DOMAIN b.data
    /\ b.data.arguments.dict
    /\ \/ /\ b.data.name = "get_weather"
          /\ Truthy(ArgGet(b.data.arguments, "city"))
       \/ /\ b.data.name = "compare_weather"
          /\ Truthy(ArgGet(b.data.arguments, "city1"))
          /\ Truthy(ArgGet(b.data.arguments, "city2"))

\* C11: when the geocoding call returns an empty result set, the tool call fails
\* with NotFound (HTTP 404), and the weather endpoint is not called for that fetch.
C11_EmptyGeocodingIsNotFound ==
    /\ response.op = "tool"
    /\ tool_call.answered # <<>>
    /\ LastAnswer.url = "geo"
    /\ ~LastAnswer.fault
    /\ LastAnswer.status_code = 200
    /\ LastAnswer.empty
    => /\ response.status = 404
       /\ ToolErrorName(response) = "NotFound"
       /\ RemoteCalls(LastAnswer.fetch, "weather") = {}

\* C12: when no API key is configured, a tool call that fetches the weather fails
\* with ConfigurationError (HTTP 500, the detail of the key check) and no remote
\* call is ever made.
C12_MissingKeyIsConfigurationError ==
    ~Truthy(OPENWEATHER_API_KEY) =>
        /\ tool_call.remote = <<>>
        /\ response.op = "tool" /\ FetchesWeather(request) =>
              /\ response.status = 500
              /\ ToolErrorName(response) = "ConfigurationError"

\* Without a key, a complete compare_weather call failed with the error of the
\* key check.
C12_Witness ==
    /\ ~Truthy(OPENWEATHER_API_KEY)
    /\ response.op = "tool"
    /\ FetchesWeather(request)
    /\ request.data.name = "compare_weather"
    /\ response.detail = "OpenWeatherMap API key not configured"

\* C13: a tool call whose name is none of the three tool names fails with
\* NotFound (HTTP 404) whatever its arguments, makes no remote call and changes
\* nothing else.
C13_Step ==
    /\ response'.op = "tool"
    /\ DOMAIN request' # {}
    /\ request'.json_ok
    /\ JsonGet(request'.data, "name", None) \notin
          {"get_weather", "get_weather_forecast", "compare_weather"}
    => /\ response'.status = 404
       /\ ToolErrorName(response') = "NotFound"
       /\ tool_call'.remote = <<>>
       /\ tool_call'.pc = "idle"
       /\ UNCHANGED <<oauth, now, OPENWEATHER_API_KEY, streams>>

C13_UnknownToolIsNotFound == [][C13_Step]_vars

\* An unknown tool name with arguments that are not a JSON object was refused
\* with 404.
C13_Witness ==
    /\ response.op = "tool"
    /\ response.status = 404
    /\ request.json_ok
    /\ "arguments" \in DOMAIN request.data
    /\ ~request.data.arguments.dict

\* C14: compare_weather names city1 as warmer exactly when its temperature is
\* greater than that of city2, names city2 in every other case, equal
\* temperatures included, and reports the absolute difference of the two.
C14_Warmer ==
    response.op = "tool" /\ response.status = 200 /\ tool_call.name = "compare_weather"
    => LET city1 == ArgGet(tool_call.arguments, "city1")
           city2 == ArgGet(tool_call.arguments, "city2")
           t1 == tool_call.weather[1].temperature
           t2 == tool_call.weather[2].temperature
       IN  /\ t1 > t2 => response.body.warmer_city = city1
           /\ ~(t1 > t2) => response.body.warmer_city = city2
           /\ response.body.temp_diff >= 0
           /\ response.body.temp_diff \in {t1 - t2, t2 - t1}

\* Two different cities had the same temperature and the second was named.
C14_Witness ==
    /\ response.op = "tool"
    /\ response.status = 200
    /\ tool_call.name = "compare_weather"
    /\ tool_call.weather[1].temperature = tool_call.weather[2].temperature
    /\ ArgGet(tool_call.arguments, "city1") # ArgGet(tool_call.arguments, "city2")
    /\ response.body.warmer_city = ArgGet(tool_call.arguments, "city2")
    /\ response.body.temp_diff = 0

\* ------------------------------------------------------------------ streams
\* The events of a stream are mcp_connected first and once, then heartbeats,
\* each heartbeat HEARTBEAT seconds or more after the event before it.
StreamOrder(events) ==
    \A k \in DOMAIN events :
        /\ (k = 1) => events[k].type = "mcp_connected"
        /\ (k > 1) => /\ events[k].type = "heartbeat"
                      /\ events[k].timestamp >= events[k - 1].timestamp + HEARTBEAT

\* C15: every /sse connection is answered with a stream whose first event is
\* mcp_connected, emitted exactly once, and whose later events are heartbeats
\* each separated from the previous event by the 30 second wait.
C15_ConnectedThenHeartbeats ==
    /\ (response.op = "sse") => response.status = 200
    /\ \A i \in 1..MaxStreams : StreamOrder(streams[i].events)

\* C16: a cancelled stream is terminated and yields no further event, and the
\* cancellation of one stream leaves every other stream as it was, free to go
\* on with its heartbeats.
C16_Step ==
    \A i \in 1..MaxStreams :
        /\ (streams[i].pc = "done") => streams'[i] = streams[i]
        /\ (streams[i].ended_at = -1 /\ streams'[i].ended_at # -1) =>
               /\ streams'[i].pc = "done"
               /\ streams'[i].events = streams[i].events
               /\ \A j \in 1..MaxStreams \ {i} :
                      /\ streams'[j] = streams[j]
                      /\ CanBeat(streams[j], now) => CanBeat(streams'[j], now')

CorrectFormFor(c, f) ==
    /\ f.code = c
    /\ f.grant_type = "authorization_code"
    /\ f.client_id = StoredFor(c).client_id
    /\ f.redirect_uri = StoredFor(c).redirect_uri
    /\ DictHas(OAUTH_CLIENTS, f.client_id)
    /\ f.client_secret = SecretOf(f.client_id)

\* C17: a token request that passes the grant type and client checks removes
\* the code it names from the store before the expiry, redirect_uri and
\* client_id checks: when one of them fails the code is gone all the same, it
\* never returns to the store, and a later request for it fails with
\* InvalidGrant, correct values or not.
C17_Step ==
    /\ TokenAnswered(response') /\ CredentialsPass(OAUTH_CLIENTS, request')
        => /\ ~DictHas(authorization_codes', request'.code)
           /\ ~DictHas(authorization_codes, request'.code)
                 => /\ ErrorName(response') = "InvalidGrant"
                    /\ response'.status = 400
    /\ TokenAnswered(response')
        /\ response'.detail \in {"Authorization code expired",
                                 "Redirect URI mismatch", "Client ID mismatch"}
        => /\ DictHas(authorization_codes, request'.code)
           /\ ~DictHas(authorization_codes', request'.code)
    /\ \A c \in IssuedCodes :
           ~DictHas(authorization_codes, c) => ~DictHas(authorization_codes', c)

C17_PopBeforeChecks == [][C17_Step]_vars

\* The client a code was issued to presented it in time with the right values,
\* after an attempt that failed a check on the code, and was refused: no token
\* was ever returned for the code.
C17_Witness ==
    /\ TokenAnswered(response)
    /\ response.code \in IssuedCodes
    /\ CorrectFormFor(response.code, request)
    /\ now <= StoredFor(response.code).expires_at
    /\ Exchanges(response.code) = {}
    /\ response.detail = "Invalid or expired authorization code"

\* C18: a token request that fails with UnsupportedGrantType or InvalidClient
\* leaves the code store as it was; a code it named that was in the store is
\* still there and a correct request for it, made in time, would be granted.
C18_Step ==
    TokenAnswered(response')
        /\ ErrorName(response') \in {"UnsupportedGrantType", "InvalidClient"}
    => /\ authorization_codes' = authorization_codes
       /\ \A f \in ExchangeForms :
              /\ f.code = request'.code
              /\ DictHas(authorization_codes, f.code)
              /\ f.code \in IssuedCodes
              /\ CorrectFormFor(f.code, f)
              /\ ~Expired(now', StoredFor(f.code))
              => TokenHandler(OAUTH_CLIENTS', authorization_codes', now',
                              NewAccessToken', f).response.status = 200

C18_EarlyFailureKeepsCode == [][C18_Step]_vars

\* A request naming a stored code failed the client check; the code is in the
\* store and the request of the client it was issued to would be granted.
C18_Witness ==
    /\ TokenAnswered(response)
    /\ ErrorName(response) = "InvalidClient"
    /\ DictHas(authorization_codes, response.code)
    /\ \E f \in ExchangeForms :
           /\ CorrectFormFor(response.code, f)
           /\ TokenHandler(OAUTH_CLIENTS, authorization_codes, now,
                           NewAccessToken, f).response.status = 200

\* C19: after a successful authorize request the store holds the new code with
\* expires_at 600 s after the time of the request and no code whose expires_at
\* is before that time; the codes the request removed are exactly the expired.
C19_Step ==
    response'.op = "authorize" /\ response'.status = 307 =>
        /\ DictHas(authorization_codes', response'.code)
        /\ DictGet(authorization_codes', response'.code).expires_at = now' + 600
        /\ ~DictHas(authorization_codes, response'.code)
        /\ \A c \in DictKeys(authorization_codes') :
               DictGet(authorization_codes', c).expires_at >= now'
        /\ \A c \in DictKeys(authorization_codes) :
               /\ DictHas(authorization_codes', c)
                     <=> DictGet(authorization_codes, c).expires_at >= now'
               /\ DictHas(authorization_codes', c)
                     => DictGet(authorization_codes', c) = DictGet(authorization_codes, c)

C19_SweepOnAuthorize == [][C19_Step]_vars

\* An authorize request succeeded after a code that no token was returned for
\* had expired: that code is gone, the new one is stored.
C19_Witness ==
    /\ response.op = "authorize"
    /\ response.status = 307
    /\ DictHas(authorization_codes, response.code)
    /\ \E c \in IssuedCodes :
           /\ StoredFor(c).expires_at < now
           /\ Exchanges(c) = {}
           /\ ~DictHas(authorization_codes, c)

\* ------------------------------------------------------------ lost updates
\* A stored code leaves the store only in the step of a token request that got
\* as far as the code, or in the sweep of an authorize request once it has
\* expired; while it stays, its record is the one stored.
CodesKept ==
    \A c \in DictKeys(authorization_codes) :
        IF DictHas(authorization_codes', c)
        THEN DictGet(authorization_codes', c) = DictGet(authorization_codes, c)
        ELSE \/ /\ TokenAnswered(response')
                /\ request'.code = c
                /\ CredentialsPass(OAUTH_CLIENTS, request')
             \/ /\ response'.op = "authorize"
                /\ response'.status = 307
                /\ Expired(now', DictGet(authorization_codes, c))

\* A client in the registry stays there with its record.
ClientsKept ==
    \A c \in DictKeys(OAUTH_CLIENTS) :
        /\ DictHas(OAUTH_CLIENTS', c)
        /\ DictGet(OAUTH_CLIENTS', c) = DictGet(OAUTH_CLIENTS, c)

\* What a completed request returned is in the store it updates.
UpdateStored ==
    /\ response'.op = "authorize" /\ response'.status = 307
        => /\ DictHas(authorization_codes', response'.code)
           /\ DictGet(authorization_codes', response'.code).client_id
                 = request'.client_id
    /\ response'.op = "register" /\ response'.status = 200
        => /\ DictHas(OAUTH_CLIENTS', response'.body.client_id)
           /\ DictGet(OAUTH_CLIENTS', response'.body.client_id).client_secret
                 = response'.body.client_secret
           /\ DictGet(OAUTH_CLIENTS', response'.body.client_id).redirect_uris
                 = response'.body.redirect_uris

\* A request naming a client of the registry is not refused as naming none, and
\* a listing names every client of the registry.
ClientsVisible ==
    /\ response'.op = "authorize" /\ DictHas(OAUTH_CLIENTS, request'.client_id)
        => response'.detail # "Invalid client ID"
    /\ TokenAnswered(response') /\ DictHas(OAUTH_CLIENTS, request'.client_id)
        => response'.detail # "Invalid client ID"
    /\ response'.op = "list" /\ response'.status = 200
        => {response'.body.clients[i].client_id :
                i \in DOMAIN response'.body.clients} = DictKeys(OAUTH_CLIENTS)

C21_Step ==
    /\ \A c \in DictKeys(OAUTH_CLIENTS) :
           /\ DictHas(OAUTH_CLIENTS', c)
           /\ \A field \in {"client_secret", "redirect_uris", "scopes", "active"} :
                  DictGet(OAUTH_CLIENTS', c)[field] = DictGet(OAUTH_CLIENTS, c)[field]
    /\ response'.op # "register" => OAUTH_CLIENTS' = OAUTH_CLIENTS
    /\ response'.op = "register" =>
           \/ OAUTH_CLIENTS' = OAUTH_CLIENTS
           \/ /\ Len(OAUTH_CLIENTS') = Len(OAUTH_CLIENTS) + 1
              /\ SubSeq(OAUTH_CLIENTS', 1, Len(OAUTH_CLIENTS)) = OAUTH_CLIENTS
              /\ ~DictHas(OAUTH_CLIENTS, OAUTH_CLIENTS'[Len(OAUTH_CLIENTS')].k)

C21_RegistryOnlyGrows == [][C21_Step]_vars

\* A client registered, an event generator yielded, and the health check then
\* counted the clients: the first client of the registry is the one it started
\* with.
C21_Witness ==
    /\ Registered > 0
    /\ response.op = "health"
    /\ \E i \in 1..MaxStreams : streams[i].events # <<>>
    /\ OAUTH_CLIENTS[1] \in {StaticClients[1], FallbackClients[1]}

\* ------------------------------------------------------------ the fetches
\* The answer is a network fault or carries a status other than success.
Failed(answer) == answer.fault \/ answer.status_code # 200

\* The response is the failure of a remote call surfaced as an error (500).
UpstreamError(r) ==
    /\ r.op \in {"tool", "mcp_tool"}
    /\ r.status = 500
    /\ ToolErrorName(r) # "ConfigurationError"

\* C22: a fetch makes at most one geocoding call and then at most one weather
\* call, the weather call only after the geocoding call was answered with
\* success and a non-empty result; a non-success status or network fault of
\* either call ends the fetch with UpstreamError, and no call is made again.
C22_OneCallEachNoRetry ==
    /\ \A n \in 1..2 :
           /\ Cardinality(RemoteCalls(n, "geo")) <= 1
           /\ Cardinality(RemoteCalls(n, "weather")) <= 1
           /\ \A i \in RemoteCalls(n, "weather") :
                  /\ \E j \in RemoteCalls(n, "geo") : j < i
                  /\ \E k \in DOMAIN tool_call.answered :
                         /\ tool_call.answered[k].fetch = n
                         /\ tool_call.answered[k].url = "geo"
                         /\ ~Failed(tool_call.answered[k])
                         /\ ~tool_call.answered[k].empty
    /\ \A k \in DOMAIN tool_call.answered :
           Failed(tool_call.answered[k]) =>
               /\ k = Len(tool_call.answered)
               /\ Len(tool_call.remote) = Len(tool_call.answered)
               /\ tool_call.pc = "idle"
               /\ UpstreamError(response)

\* ------------------------------------------------------- inactive clients
\* The client is in the registry with its active flag set.
Active(client_id) ==
    /\ DictHas(OAUTH_CLIENTS, client_id)
    /\ DictGet(OAUTH_CLIENTS, client_id).active

\* C23: no authorization code in the store and no access token returned belongs
\* to a client whose active flag is false: an inactive client has no
\* redirect_uri, and an authorize request naming it is refused.
C23_NoneForInactive ==
    /\ \A c \in DictKeys(authorization_codes) :
           Active(DictGet(authorization_codes, c).client_id)
    /\ \A i \in DOMAIN issued : Active(issued[i].stored.client_id)
    /\ \A i \in DOMAIN tokens : Active(tokens[i].client_id)
    /\ \A c \in DictKeys(OAUTH_CLIENTS) :
           ~Active(c) => DictGet(OAUTH_CLIENTS, c).redirect_uris = <<>>
    /\ response.op = "authorize"
           /\ DictHas(OAUTH_CLIENTS, request.client_id)
           /\ ~Active(request.client_id)
        => response.status = 400
    /\ TokenAnswered(response)
           /\ DictHas(OAUTH_CLIENTS, request.client_id)
           /\ ~Active(request.client_id)
        => response.status = 400

\* The inactive client presented, with its own secret, a code issued to a client
\* that registered: the token request passed the client checks and was refused
\* for the client_id stored with the code.
C23_Witness ==
    /\ TokenAnswered(response)
    /\ DictHas(OAUTH_CLIENTS, request.client_id)
    /\ ~Active(request.client_id)
    /\ CredentialsPass(OAUTH_CLIENTS, request)
    /\ response.detail = "Client ID mismatch"

====
